---- MODULE Spec2Model ----
(***************************************************************************)
(* Model of src/mcp_server/tools/search_engine.py: SearchCache,            *)
(* RateLimiter and SearchManager (serial failover and parallel fan-out).   *)
(*                                                                         *)
(* Python strings are sequences of tokens (an f-string is a concatenation  *)
(* of token sequences), Optional[x] is <<>> for None and <<x>> otherwise,  *)
(* a dict is a sequence of entries in insertion order with distinct keys,  *)
(* and the clock (time.time / datetime.now) is the integer variable now.   *)
(***************************************************************************)
EXTENDS Integers, Sequences, FiniteSets, TLC

\* ------------------------------------------------------------------ bounds
\* Configuration of the instances under analysis (constructor arguments); an
\* entry lives longer than a rate window, as with the defaults (3600 and 60),
\* so that a repeated search can be admitted while its entry is still stored.
max_size == 2
ttl_seconds == 4
max_requests == 1
window_seconds == 3
\* The clock stops at MaxTime; at most MaxGets direct cache lookups are made.
MaxTime == 4
MaxGets == 1
\* At most MaxCalls is_allowed calls are made on the limiter API.
MaxCalls == 4
\* At most MaxSearches calls of SearchManager.search are made.
MaxSearches == 2
\* Longest result list handed to the deduplication pass on its own.
MaxLen == 3
\* Concurrent callers of one RateLimiter(max_requests = RaceLimit): NumCallers
\* threads make at most MaxRaceCalls is_allowed calls.
RaceLimit == 2
NumCallers == 2
MaxRaceCalls == 4
\* Lookups other threads make while one thread is inside get_cache_stats.
MaxConcurrentGets == 2
\* Threads that call the manager concurrently (the workers of a fan-out
\* come on top).
NumThreads == 2
\* Capacity of the cache whose evictions are compared with expiry times.
CacheSize == 3

\* ----------------------------------------------------------------- helpers
None == <<>>
Some(x) == <<x>>

Range(s) == {s[i] : i \in DOMAIN s}

RECURSIVE Concat(_)
Concat(ss) == IF ss = <<>> THEN <<>> ELSE Head(ss) \o Concat(Tail(ss))

\* s without its i-th element
RemoveAt(s, i) == SubSeq(s, 1, i - 1) \o SubSeq(s, i + 1, Len(s))

Min(S) == CHOOSE x \in S : \A y \in S : x <= y
Max(S) == CHOOSE x \in S : \A y \in S : x >= y

\* ------------------------------------------------------------- SearchCache
\* Option names in the order sorted() gives them.
OptionNames == <<"is_news", "max_results">>

\* json.dumps(params, sort_keys=True): the items by sorted name, whatever the
\* insertion order of params (a sequence of <<name, value>> pairs).
json_dumps_sorted(params) ==
    LET item(n) == LET S == {i \in DOMAIN params : params[i][1] = OptionNames[n]}
                   IN IF S = {} THEN <<>>
                      ELSE LET i == CHOOSE j \in S : TRUE
                           IN <<params[i][1], ToString(params[i][2])>>
    IN <<"{">> \o Concat([n \in DOMAIN OptionNames |-> item(n)]) \o <<"}">>

\* The key string that is hashed; md5 is taken to be injective on it.
_generate_key(query, engine, params) ==
    engine \o <<":">> \o query \o <<":">> \o json_dumps_sorted(params)

CacheKeys(c) == {c[i].key : i \in DOMAIN c}

IndexOf(c, key) == CHOOSE i \in DOMAIN c : c[i].key = key

\* min(self.cache.keys(), key=created_at): the first key, in dict order, among
\* those of least created_at.
OldestIndexNewest(c) ==
    Max({i \in DOMAIN c : \A j \in DOMAIN c : c[i].created_at >= c[j].created_at})

OldestIndex(c) ==
    Min({i \in DOMAIN c : \A j \in DOMAIN c : c[i].created_at <= c[j].created_at})

\* self.cache[key] = entry: an existing key keeps its place in the dict.
DictStore(c, entry) ==
    IF entry.key \in CacheKeys(c)
    THEN [c EXCEPT ![IndexOf(c, entry.key)] = entry]
    ELSE Append(c, entry)

\* The dict after set(): t1 and t2 are the two readings of datetime.now().
SetNoEvict(c, key, results, t1, t2) ==
    DictStore(c, [key |-> key, results |-> results, created_at |-> t1,
                  expires_at |-> t2 + ttl_seconds])

SetEvictNewest(c, key, results, t1, t2) ==
    LET kept == IF Len(c) >= max_size THEN RemoveAt(c, OldestIndexNewest(c)) ELSE c
    IN DictStore(kept, [key |-> key, results |-> results, created_at |-> t1,
                        expires_at |-> t2 + ttl_seconds])

CacheAfterSet(c, key, results, t1, t2) ==
    LET kept == IF Len(c) >= max_size THEN RemoveAt(c, OldestIndex(c)) ELSE c
    IN DictStore(kept, [key |-> key, results |-> results, created_at |-> t1,
                        expires_at |-> t2 + ttl_seconds])

\* The same body in a SearchCache constructed with max_size = size.
CacheAfterSetWithSize(c, key, results, t1, t2, size) ==
    LET kept == IF Len(c) >= size THEN RemoveAt(c, OldestIndex(c)) ELSE c
    IN DictStore(kept, [key |-> key, results |-> results, created_at |-> t1,
                        expires_at |-> t2 + ttl_seconds])

\* get() under the lock at clock reading t: the dict, the counters and the
\* returned value.
GetServesAtExpiry(c, h, m, key, t) ==
    IF key \in CacheKeys(c)
    THEN LET entry == c[IndexOf(c, key)]
         IN IF t <= entry.expires_at
            THEN [cache |-> c, hits |-> h + 1, misses |-> m, value |-> Some(entry.results)]
            ELSE [cache |-> RemoveAt(c, IndexOf(c, key)), hits |-> h,
                  misses |-> m + 1, value |-> None]
    ELSE [cache |-> c, hits |-> h, misses |-> m + 1, value |-> None]

GetExpiredUncounted(c, h, m, key, t) ==
    IF key \in CacheKeys(c)
    THEN LET entry == c[IndexOf(c, key)]
         IN IF t < entry.expires_at
            THEN [cache |-> c, hits |-> h + 1, misses |-> m, value |-> Some(entry.results)]
            ELSE [cache |-> RemoveAt(c, IndexOf(c, key)), hits |-> h,
                  misses |-> m, value |-> None]
    ELSE [cache |-> c, hits |-> h, misses |-> m + 1, value |-> None]

CacheAfterGet(c, h, m, key, t) ==
    IF key \in CacheKeys(c)
    THEN LET entry == c[IndexOf(c, key)]
         IN IF t < entry.expires_at
            THEN [cache |-> c, hits |-> h + 1, misses |-> m, value |-> Some(entry.results)]
            ELSE [cache |-> RemoveAt(c, IndexOf(c, key)), hits |-> h,
                  misses |-> m + 1, value |-> None]
    ELSE [cache |-> c, hits |-> h, misses |-> m + 1, value |-> None]

\* get_stats() under the lock at clock reading t.
get_stats(c, t) ==
    LET total == Len(c)
        expired == Cardinality({i \in DOMAIN c : t >= c[i].expires_at})
    IN [total_entries |-> total, expired_entries |-> expired,
        active_entries |-> total - expired, max_size |-> max_size,
        ttl_seconds |-> ttl_seconds]

\* ------------------------------------------------------------- RateLimiter
\* self.requests is a function from the keys present to their timestamp lists.
DictPut(r, key, value) ==
    [k \in DOMAIN r \cup {key} |-> IF k = key THEN value ELSE r[k]]

DictPop(r, key) == [k \in DOMAIN r \ {key} |-> r[k]]

\* [t for t in self.requests[key] if t > cutoff]
Prune(window, cutoff) == SelectSeq(window, LAMBDA t : t > cutoff)

\* is_allowed(key) under the lock, t being the time.time() read before it.
IsAllowedRecordsRejected(r, key, t) ==
    LET window == IF key \in DOMAIN r THEN r[key] ELSE <<>>
        kept == Prune(window, t - window_seconds)
    IN [requests |-> DictPut(r, key, Append(kept, t)),
        value |-> Len(kept) < max_requests]

IsAllowedNoRecord(r, key, t) ==
    LET window == IF key \in DOMAIN r THEN r[key] ELSE <<>>
        kept == Prune(window, t - window_seconds)
    IN [requests |-> DictPut(r, key, kept), value |-> Len(kept) < max_requests]

IsAllowedAfter(r, key, t) ==
    LET window == IF key \in DOMAIN r THEN r[key] ELSE <<>>
        kept == Prune(window, t - window_seconds)
    IN IF Len(kept) >= max_requests
       THEN [requests |-> DictPut(r, key, kept), value |-> FALSE]
       ELSE [requests |-> DictPut(r, key, Append(kept, t)), value |-> TRUE]

\* The same body in a RateLimiter constructed with max_requests = limit.
IsAllowedWithLimit(r, key, t, limit) ==
    LET window == IF key \in DOMAIN r THEN r[key] ELSE <<>>
        kept == Prune(window, t - window_seconds)
    IN IF Len(kept) >= limit
       THEN [requests |-> DictPut(r, key, kept), value |-> FALSE]
       ELSE [requests |-> DictPut(r, key, Append(kept, t)), value |-> TRUE]

\* wait_time(key) at clock reading t.
WaitTimeUnfloored(r, key, t) ==
    IF key \notin DOMAIN r \/ Len(r[key]) < max_requests
    THEN 0
    ELSE Min(Range(r[key])) + window_seconds - t

wait_time_of(r, key, t) ==
    IF key \notin DOMAIN r \/ Len(r[key]) < max_requests
    THEN 0
    ELSE LET oldest == Min(Range(r[key]))
             wait_until == oldest + window_seconds
         IN Max({0, wait_until - t})

\* "if key:" for an Optional[str]: None and the empty string are both false.
Truthy(opt) == opt # None /\ opt[1] # <<>>

\* reset(key)
ResetAfter(r, opt) ==
    IF Truthy(opt)
    THEN (IF opt[1] \in DOMAIN r THEN DictPop(r, opt[1]) ELSE r)
    ELSE << >>

\* ----------------------------------------------------------- SearchManager
\* self.engines: registry key |-> SearchEngine.name of the adapter.
engines ==
    (<<"duckduckgo">> :> <<"DuckDuckGo">>) @@ (<<"bing">> :> <<"Bing">>) @@
    (<<"google">> :> <<"Google">>) @@ (<<"baidu">> :> <<"Baidu">>)

\* f"{engine_name}:{query}"
rate_key(engine_name, query) == engine_name \o <<":">> \o query

\* {"max_results": max_results, "is_news": is_news}
cache_params(max_results, is_news) ==
    <<<<"max_results", max_results>>, <<"is_news", is_news>>>>

\* str.strip(): leading and trailing blanks removed.
RECURSIVE lstrip(_)
lstrip(str) == IF str # <<>> /\ Head(str) = " " THEN lstrip(Tail(str)) ELSE str

RECURSIVE rstrip(_, _)
rstrip(str, ch) ==
    IF str # <<>> /\ str[Len(str)] = ch THEN rstrip(SubSeq(str, 1, Len(str) - 1), ch)
    ELSE str

strip(str) == rstrip(lstrip(str), " ")

\* str.lower(), on the tokens that have an upper-case form.
lower(str) ==
    [n \in DOMAIN str |-> CASE str[n] = "T1" -> "t1"
                            [] str[n] = "T2" -> "t2"
                            [] OTHER -> str[n]]

\* url.split("?")[0]
BeforeQuery(url) ==
    LET marks == {n \in DOMAIN url : url[n] = "?"}
    IN IF marks = {} THEN url ELSE SubSeq(url, 1, Min(marks) - 1)

\* url.split("?")[0].rstrip("/") of the stripped link
url_normalized(result) == rstrip(BeforeQuery(strip(result.link)), "/")

\* result.get("title", "").strip().lower()
title_stripped(result) == strip(result.title)

title_lowered(result) == lower(strip(result.title))

\* unique_results.append(result)
unique_results_insert(unique_results, result) == <<result>> \o unique_results

unique_results_append(unique_results, result) == Append(unique_results, result)

\* if url_normalized and url_normalized not in seen_urls: if title not in
\* seen_titles (lines 698-699)
is_new_or_linkless(url, title, seen_urls, seen_titles) ==
    url \notin seen_urls /\ title \notin seen_titles

is_new(url, title, seen_urls, seen_titles) ==
    url # <<>> /\ url \notin seen_urls /\ title \notin seen_titles

\* _deduplicate_results: one pass with the two seen-sets.
RECURSIVE DedupFrom(_, _, _, _)
DedupFrom(rest, seen_urls, seen_titles, unique_results) ==
    IF rest = <<>> THEN unique_results
    ELSE LET result == Head(rest)
             url == url_normalized(result)
             title == title_lowered(result)
         IN IF is_new(url, title, seen_urls, seen_titles)
            THEN DedupFrom(Tail(rest), seen_urls \cup {url}, seen_titles \cup {title},
                           unique_results_append(unique_results, result))
            ELSE DedupFrom(Tail(rest), seen_urls, seen_titles, unique_results)

_deduplicate_results(rs) == DedupFrom(rs, {}, {}, <<>>)

\* list(dict.fromkeys(names)): first occurrences, in order.
RECURSIVE fromkeys(_)
fromkeys(names) ==
    IF names = <<>> THEN <<>>
    ELSE LET init == fromkeys(SubSeq(names, 1, Len(names) - 1))
             last == names[Len(names)]
         IN IF last \in Range(init) THEN init ELSE Append(init, last)

\* all_results[:max_results]
NoTruncate(rs, n) == rs

Truncate(rs, n) == SubSeq(rs, 1, Min({n, Len(rs)}))

\* [r["engine"] for r in results if "engine" in r], duplicates removed.
engines_used_of(rs) == fromkeys([n \in DOMAIN rs |-> rs[n].engine])

\* engines_used.append(engine_name)
AppendNothing(used, engine_name) == used

engines_used_append(used, engine_name) == Append(used, engine_name)

\* "break": the loop index once the loop over n engines is left at index i.
NoBreak(i, n) == i + 1

Break(i, n) == n + 1

\* errors if errors else None
errors_field(errs) == IF errs # <<>> THEN Some(errs) ELSE None

\* The dict search() returns.
response_from_cache_as_cached(request, rs, used, cached_hit, errs) ==
    [success |-> Len(rs) > 0, results |-> rs, count |-> Len(rs),
     query |-> request.query, engines_used |-> used, parallel |-> request.parallel,
     from_cache |-> request.use_cache /\ Len(rs) > 0,
     cached |-> request.use_cache /\ Len(rs) > 0, errors |-> errors_field(errs)]

response_of(request, rs, used, cached_hit, errs) ==
    [success |-> Len(rs) > 0, results |-> rs, count |-> Len(rs),
     query |-> request.query, engines_used |-> used, parallel |-> request.parallel,
     from_cache |-> cached_hit, cached |-> request.use_cache /\ Len(rs) > 0,
     errors |-> errors_field(errs)]

\* ------------------------------------------------------------------- state
VARIABLES
    now,        \* the clock
    cache,      \* SearchCache.cache
    hits,       \* SearchCache.hits
    misses,     \* SearchCache.misses
    requests,   \* RateLimiter.requests
    ret,        \* the last call made on the cache or limiter API and its value
    calls,      \* history: the is_allowed calls made since their key was reset
    callers,    \* threads inside is_allowed: the clock reading each one holds
    pc,         \* where the search() call in progress stands
    request,    \* its arguments
    pos,        \* serial strategy: index of engine_name in engines
    results,    \* its local results
    errors,     \* its local errors
    engines_used,
    from_cache,
    tasks,      \* parallel strategy: one search_engine task per engine
    all_results,
    response,   \* the dict the last finished search() returned
    trace,      \* history: what the search() in progress did, in order
    searches,   \* number of search() calls started
    threads,    \* concurrent threads: where each one stands and its locals
    locks,      \* the thread holding SearchCache.lock and RateLimiter.lock
    _search_manager,  \* the module global
    instances   \* the SearchManager objects constructed

cacheVars == <<cache, hits, misses>>
limiterVars == <<requests, calls, callers>>
localVars == <<pos, results, errors, engines_used, from_cache, tasks, all_results>>
searchVars == <<pc, request, localVars, response, trace, searches>>
processVars == <<threads, locks, _search_manager, instances>>
vars == <<now, cacheVars, limiterVars, ret, searchVars, processVars>>

\* Lock() of SearchCache.__init__ and of RateLimiter.__init__: held by no thread.
NoLocks == [cache |-> 0, limiter |-> 0]

\* Results a caller of the cache API stores.
Result(link, title, engine) == [link |-> link, title |-> title, engine |-> engine]

CacheQueries == {<<"q">>, <<"r">>, <<"s">>}
CacheEngines == {<<"bing">>}
CacheParams == {<<<<"max_results", 1>>, <<"is_news", FALSE>>>>}
CacheResults == {<<Result(<<"u1">>, <<"t1">>, <<"Bing">>)>>}

\* Engine names given to search(): two registered ones and an unknown one.
bing == <<"bing">>
google == <<"google">>
yahoo == <<"yahoo">>

EngineLists == {<<bing>>, <<bing, google>>, <<yahoo, bing>>}

\* Arguments of search(): every strategy and cache flag with room for all the
\* results, and a fan-out whose aggregate is longer than max_results.
Requests ==
    [query : {<<"q">>}, max_results : {2}, engines : EngineLists,
     parallel : BOOLEAN, use_cache : BOOLEAN, is_news : {FALSE}]
    \cup [query : {<<"q">>}, max_results : {1}, engines : {<<bing, google>>},
          parallel : {TRUE}, use_cache : {FALSE}, is_news : {FALSE}]

NoRequest ==
    [query |-> <<>>, max_results |-> 0, engines |-> <<>>, parallel |-> FALSE,
     use_cache |-> FALSE, is_news |-> FALSE]

\* What an adapter's search() may do: return a list (empty when it caught a
\* failure of its own) or raise.
B1 == Result(<<"u1">>, <<"t1">>, <<"Bing">>)
B0 == Result(<<>>, <<"t0">>, <<"Bing">>)
B2 == Result(<<"/", "?", "x">>, <<"t1">>, <<"Bing">>)
G1 == Result(<<"u1", "/">>, <<"T2">>, <<"Google">>)
G3 == Result(<<"u2", "?", "x">>, <<"t3">>, <<"Google">>)

Returned(rs) == [raised |-> FALSE, results |-> rs]
Raised == [raised |-> TRUE, results |-> <<>>]

Outcomes(engine_name, req) ==
    LET lists == IF engine_name = bing THEN {<<>>, <<B1>>, <<B0, B2>>}
                 ELSE {<<>>, <<G1>>, <<G3>>, <<G3, G1>>}
    IN {Returned(rs) : rs \in {l \in lists : Len(l) <= req.max_results}} \cup {Raised}

Init ==
    /\ now = 0
    /\ cache = <<>>
    /\ hits = 0
    /\ misses = 0
    /\ requests = << >>
    /\ ret = [op |-> "none"]
    /\ calls = <<>>
    /\ callers = <<>>
    /\ pc = "idle"
    /\ request = NoRequest
    /\ pos = 0
    /\ results = <<>>
    /\ errors = <<>>
    /\ engines_used = <<>>
    /\ from_cache = FALSE
    /\ tasks = <<>>
    /\ all_results = <<>>
    /\ response = None
    /\ trace = <<>>
    /\ searches = 0
    /\ threads = <<>>
    /\ locks = NoLocks
    /\ _search_manager = None
    /\ instances = <<>>

\* The clock advances between two calls.
Tick ==
    /\ pc \in {"idle", "done"}
    /\ now < MaxTime
    /\ now' = now + 1
    /\ UNCHANGED <<cacheVars, limiterVars, processVars, ret, searchVars>>

\* SearchCache.get
get(query, engine, params) ==
    LET key == _generate_key(query, engine, params)
        out == CacheAfterGet(cache, hits, misses, key, now)
    IN /\ hits + misses < MaxGets
       /\ cache' = out.cache
       /\ hits' = out.hits
       /\ misses' = out.misses
       /\ ret' = [op |-> "get", value |-> out.value,
                  expired |-> /\ key \in CacheKeys(cache)
                              /\ now >= cache[IndexOf(cache, key)].expires_at]
       /\ UNCHANGED <<now, limiterVars, processVars, searchVars>>

\* SearchCache.set; the clock may advance between its two readings.
set(query, engine, params, value) ==
    \E d \in 0..1 :
        LET key == _generate_key(query, engine, params)
        IN /\ now + d <= MaxTime
           /\ cache' = CacheAfterSet(cache, key, value, now, now + d)
           /\ now' = now + d
           /\ ret' = [op |-> "set", size_before |-> Len(cache),
                      stored |-> key \in CacheKeys(cache)]
           /\ UNCHANGED <<hits, misses, limiterVars, processVars, searchVars>>

\* SearchCache.clear: it returns None.
clear ==
    /\ cache' = <<>>
    /\ ret' = [op |-> "clear", size_before |-> Len(cache), returned |-> None]
    /\ UNCHANGED <<now, hits, misses, limiterVars, processVars, searchVars>>

\* SearchManager.clear_cache: it empties the dict itself, under the cache's
\* lock, and returns the count it read there.
clear_cache ==
    LET count == Len(cache)
    IN /\ cache' = <<>>
       /\ ret' = [op |-> "clear_cache", size_before |-> Len(cache),
                  returned |-> Some(count)]
       /\ UNCHANGED <<now, hits, misses, limiterVars, processVars, searchVars>>

\* SearchCache.get_stats
CallGetStats ==
    /\ ret' = [op |-> "get_stats", stats |-> get_stats(cache, now)]
    /\ UNCHANGED <<now, cacheVars, limiterVars, processVars, searchVars>>

CacheGetAny == \E q \in CacheQueries, e \in CacheEngines, p \in CacheParams : get(q, e, p)

CacheSetAny ==
    \E q \in CacheQueries, e \in CacheEngines, p \in CacheParams, r \in CacheResults :
        set(q, e, p, r)

\* Callers of the cache API, in any interleaving (every operation holds the
\* cache lock for its whole body).
NextCache == Tick \/ CacheGetAny \/ CacheSetAny \/ clear \/ CallGetStats

SpecCache == Init /\ [][NextCache]_vars

\* Cache administration: entries are put, and the cache is emptied through
\* SearchCache.clear or through SearchManager.clear_cache.
NextAdmin == CacheSetAny \/ clear \/ clear_cache

SpecAdmin == Init /\ [][NextAdmin]_vars

\* Keys given to the limiter API, the empty string among them.
RateKeys == {<<>>, <<"a">>, <<"b">>}

\* RateLimiter.is_allowed
is_allowed(key) ==
    LET out == IsAllowedAfter(requests, key, now)
    IN /\ Len(calls) < MaxCalls
       /\ requests' = out.requests
       /\ ret' = [op |-> "is_allowed", key |-> key, now |-> now, allowed |-> out.value]
       /\ calls' = Append(calls, [key |-> key, t |-> now, allowed |-> out.value])
       /\ UNCHANGED <<now, cacheVars, callers, processVars, searchVars>>

\* RateLimiter.wait_time
wait_time(key) ==
    /\ ret' = [op |-> "wait_time", key |-> key, now |-> now,
               wait |-> wait_time_of(requests, key, now)]
    /\ UNCHANGED <<now, cacheVars, limiterVars, processVars, searchVars>>

\* RateLimiter.reset
reset(opt) ==
    /\ requests' = ResetAfter(requests, opt)
    /\ ret' = [op |-> "reset", opt |-> opt, keys_before |-> DOMAIN requests]
    /\ calls' = SelectSeq(calls, LAMBDA c : c.key \in DOMAIN requests')
    /\ UNCHANGED <<now, cacheVars, callers, processVars, searchVars>>

IsAllowedAny == \E k \in RateKeys : is_allowed(k)

WaitTimeAny == \E k \in RateKeys : wait_time(k)

ResetAny == \E opt \in {None} \cup {Some(k) : k \in RateKeys} : reset(opt)

\* Callers of the limiter API, one after the other.
NextLimiter == Tick \/ IsAllowedAny \/ WaitTimeAny \/ ResetAny

SpecLimiter == Init /\ [][NextLimiter]_vars

\* ------------------------------------------------- SearchManager.search
Event(kind, idx, ok, value) == [kind |-> kind, idx |-> idx, ok |-> ok, value |-> value]

NumEngines == Len(request.engines)

CacheKeyOf(engine_name) ==
    _generate_key(request.query, engine_name,
                  cache_params(request.max_results, request.is_news))

unknown_error(engine_name) == <<"Unknown engine: ">> \o engine_name

rate_error(engine_name, wait) ==
    engine_name \o <<": Rate limit exceeded (wait ", ToString(wait), "s)">>

raise_error(engine_name) == engine_name \o <<": ", "error">>

\* A caller enters search().
Start(req) ==
    /\ pc \in {"idle", "done"}
    /\ searches < MaxSearches
    /\ searches' = searches + 1
    /\ request' = req
    /\ response' = None
    /\ trace' = <<>>
    /\ IF req.parallel /\ Len(req.engines) > 1
       THEN /\ pc' = "parallel"
            /\ pos' = 0
            /\ tasks' = [k \in 1..Len(req.engines) |->
                               [pc |-> "top", out |-> <<>>, log |-> <<>>]]
       ELSE /\ pc' = "top"
            /\ pos' = 1
            /\ tasks' = <<>>
    /\ UNCHANGED <<now, cacheVars, limiterVars, processVars, ret, results, errors,
                   engines_used, from_cache, all_results>>

\* The loop goes on at index j, or is over.
LoopAt(j) ==
    /\ pos' = IF j > NumEngines THEN NumEngines + 1 ELSE j
    /\ pc' = IF j > NumEngines THEN "finish" ELSE "top"

\* Serial strategy, head of the loop body: unknown engine, or rate check.
SerialTop ==
    /\ pc = "top"
    /\ LET engine_name == request.engines[pos]
           key == rate_key(engine_name, request.query)
           out == IsAllowedAfter(requests, key, now)
       IN IF engine_name \notin DOMAIN engines
          THEN /\ errors' = Append(errors, unknown_error(engine_name))
               /\ trace' = Append(trace, Event("unknown", pos, FALSE, <<>>))
               /\ LoopAt(pos + 1)
               /\ UNCHANGED requests
          ELSE /\ requests' = out.requests
               /\ trace' = Append(trace, Event("rate", pos, out.value, <<>>))
               /\ IF out.value
                  THEN /\ pc' = IF request.use_cache THEN "cache" ELSE "invoke"
                       /\ UNCHANGED <<pos, errors>>
                  ELSE /\ errors' = Append(errors,
                              rate_error(engine_name, wait_time_of(out.requests, key, now)))
                       /\ LoopAt(pos + 1)
    /\ UNCHANGED <<now, cacheVars, calls, callers, processVars, ret, request, results,
                   engines_used, from_cache, tasks, all_results, response, searches>>

\* Serial strategy: the cache lookup.
SerialCache ==
    /\ pc = "cache"
    /\ LET engine_name == request.engines[pos]
           out == CacheAfterGet(cache, hits, misses, CacheKeyOf(engine_name), now)
           cached == IF out.value = None THEN <<>> ELSE out.value[1]
       IN /\ cache' = out.cache
          /\ hits' = out.hits
          /\ misses' = out.misses
          /\ trace' = Append(trace, Event("cache", pos, cached # <<>>, cached))
          /\ IF cached # <<>>
             THEN /\ results' = cached
                  /\ engines_used' = engines_used_append(engines_used, engine_name)
                  /\ from_cache' = TRUE
                  /\ LoopAt(Break(pos, NumEngines))
             ELSE /\ pc' = "invoke"
                  /\ UNCHANGED <<pos, results, engines_used, from_cache>>
    /\ UNCHANGED <<now, limiterVars, processVars, ret, request, errors, tasks,
                   all_results, response, searches>>

\* Serial strategy: the adapter is called and its results, if any, are
\* adopted and cached.
SerialInvoke ==
    /\ pc = "invoke"
    /\ \E o \in Outcomes(request.engines[pos], request) :
        LET engine_name == request.engines[pos]
            t == now
        IN /\ IF o.raised
              THEN /\ errors' = Append(errors, raise_error(engine_name))
                   /\ trace' = Append(trace, Event("raise", pos, FALSE, <<>>))
                   /\ LoopAt(pos + 1)
                   /\ UNCHANGED <<cache, results, engines_used>>
              ELSE IF o.results # <<>>
              THEN /\ results' = o.results
                   /\ engines_used' = engines_used_append(engines_used, engine_name)
                   /\ IF request.use_cache
                      THEN /\ cache' = CacheAfterSet(cache, CacheKeyOf(engine_name),
                                                     o.results, t, t)
                           /\ trace' = trace \o <<Event("invoke", pos, TRUE, o.results),
                                                  Event("store", pos, TRUE, o.results)>>
                      ELSE /\ trace' = Append(trace, Event("invoke", pos, TRUE, o.results))
                           /\ UNCHANGED cache
                   /\ LoopAt(Break(pos, NumEngines))
                   /\ UNCHANGED errors
              ELSE /\ trace' = Append(trace, Event("invoke", pos, FALSE, <<>>))
                   /\ LoopAt(pos + 1)
                   /\ UNCHANGED <<cache, results, engines_used, errors>>
    /\ UNCHANGED <<now, hits, misses, limiterVars, processVars, ret, request,
                   from_cache, tasks, all_results, response, searches>>

\* Parallel strategy: task k moves to state st with result out, having done evs.
TaskStep(k, st, out, evs) ==
    tasks' = [tasks EXCEPT ![k] = [pc |-> st, out |-> out, log |-> tasks[k].log \o evs]]

\* Where a task goes after is_allowed: "return []" when it was rejected, else
\* the cache lookup if use_cache, else the adapter call.
AfterRateCheckIgnored(allowed, use_cache) == IF use_cache THEN "cache" ELSE "invoke"

AfterRateCheckAlwaysCache(allowed, use_cache) == IF ~allowed THEN "done" ELSE "cache"

AfterRateCheck(allowed, use_cache) ==
    IF ~allowed THEN "done" ELSE IF use_cache THEN "cache" ELSE "invoke"

\* Parallel strategy, task k: unknown engine, or rate check.
TaskTop(k) ==
    /\ pc = "parallel"
    /\ tasks[k].pc = "top"
    /\ LET engine_name == request.engines[k]
           key == rate_key(engine_name, request.query)
           out == IsAllowedAfter(requests, key, now)
       IN IF engine_name \notin DOMAIN engines
          THEN /\ TaskStep(k, "done", <<>>, <<Event("unknown", k, FALSE, <<>>)>>)
               /\ UNCHANGED requests
          ELSE /\ requests' = out.requests
               /\ TaskStep(k, AfterRateCheck(out.value, request.use_cache),
                           <<>>, <<Event("rate", k, out.value, <<>>)>>)
    /\ UNCHANGED <<now, cacheVars, calls, callers, processVars, ret, pc, request, pos,
                   results, errors, engines_used, from_cache, all_results, response,
                   trace, searches>>

\* Parallel strategy, task k: the cache lookup.
TaskCache(k) ==
    /\ pc = "parallel"
    /\ tasks[k].pc = "cache"
    /\ LET out == CacheAfterGet(cache, hits, misses, CacheKeyOf(request.engines[k]), now)
           cached == IF out.value = None THEN <<>> ELSE out.value[1]
       IN /\ cache' = out.cache
          /\ hits' = out.hits
          /\ misses' = out.misses
          /\ TaskStep(k, IF cached # <<>> THEN "done" ELSE "invoke", cached,
                      <<Event("cache", k, cached # <<>>, cached)>>)
    /\ UNCHANGED <<now, limiterVars, processVars, ret, pc, request, pos, results,
                   errors, engines_used, from_cache, all_results, response, trace,
                   searches>>

\* Parallel strategy, task k: the adapter is called and its results cached.
TaskInvoke(k) ==
    /\ pc = "parallel"
    /\ tasks[k].pc = "invoke"
    /\ \E o \in Outcomes(request.engines[k], request) :
        LET t == now
        IN /\ IF o.raised
              THEN /\ TaskStep(k, "done", <<>>, <<Event("raise", k, FALSE, <<>>)>>)
                   /\ UNCHANGED cache
              ELSE IF o.results # <<>> /\ request.use_cache
              THEN /\ cache' = CacheAfterSet(cache, CacheKeyOf(request.engines[k]),
                                             o.results, t, t)
                   /\ TaskStep(k, "done", o.results,
                               <<Event("invoke", k, TRUE, o.results),
                                 Event("store", k, TRUE, o.results)>>)
              ELSE /\ TaskStep(k, "done", o.results,
                               <<Event("invoke", k, o.results # <<>>, o.results)>>)
                   /\ UNCHANGED cache
    /\ UNCHANGED <<now, hits, misses, limiterVars, processVars, ret, pc, request, pos,
                   results, errors, engines_used, from_cache, all_results, response,
                   trace, searches>>

\* if results: all_results.extend(results)
all_results_prepend(all, rs) == IF rs # <<>> THEN rs \o all ELSE all

all_results_extend(all, rs) == IF rs # <<>> THEN all \o rs ELSE all

\* as_completed hands a finished task to the caller, which extends all_results.
Collect(k) ==
    /\ pc = "parallel"
    /\ tasks[k].pc = "done"
    /\ tasks' = [tasks EXCEPT ![k].pc = "collected"]
    /\ all_results' = all_results_extend(all_results, tasks[k].out)
    /\ UNCHANGED <<now, cacheVars, limiterVars, processVars, ret, pc, request, pos,
                   results, errors, engines_used, from_cache, response, trace,
                   searches>>

\* The "with ThreadPoolExecutor" block is left once as_completed has yielded
\* every future and the pool has joined its workers.
AnyCollected(ts) == \E k \in DOMAIN ts : ts[k].pc = "collected"

AllCollected(ts) == \A k \in DOMAIN ts : ts[k].pc = "collected"

\* _parallel_search returns; search() derives engines_used from its results.
\* The history lists what each task did, task after task.
ParallelReturn ==
    /\ pc = "parallel"
    /\ AllCollected(tasks)
    /\ LET rs == Truncate(all_results, request.max_results)
       IN /\ results' = rs
          /\ engines_used' = engines_used_of(rs)
    /\ trace' = Concat([k \in DOMAIN tasks |-> tasks[k].log])
    /\ pc' = "finish"
    /\ tasks' = <<>>
    /\ all_results' = <<>>
    /\ UNCHANGED <<now, cacheVars, limiterVars, processVars, ret, request, pos,
                   errors, from_cache, response, searches>>

\* The deduplication pass and the returned dict; the locals are gone.
Finish ==
    /\ pc = "finish"
    /\ LET rs == IF results # <<>> THEN _deduplicate_results(results) ELSE results
       IN response' = Some(response_of(request, rs, engines_used, from_cache, errors))
    /\ pc' = "done"
    /\ pos' = 0
    /\ results' = <<>>
    /\ errors' = <<>>
    /\ engines_used' = <<>>
    /\ from_cache' = FALSE
    /\ UNCHANGED <<now, cacheVars, limiterVars, processVars, ret, request, tasks,
                   all_results, trace, searches>>

StartAny == \E req \in Requests : Start(req)

TaskTopAny == \E k \in DOMAIN tasks : TaskTop(k)

TaskCacheAny == \E k \in DOMAIN tasks : TaskCache(k)

TaskInvokeAny == \E k \in DOMAIN tasks : TaskInvoke(k)

CollectAny == \E k \in DOMAIN tasks : Collect(k)

\* Calls of search(), one after the other, while the clock advances.
Next ==
    \/ Tick
    \/ StartAny
    \/ SerialTop
    \/ SerialCache
    \/ SerialInvoke
    \/ TaskTopAny
    \/ TaskCacheAny
    \/ TaskInvokeAny
    \/ CollectAny
    \/ ParallelReturn
    \/ Finish

Spec == Init /\ [][Next]_vars

\* Calls of search() that take the parallel strategy, one after the other.
StartFanOut ==
    \E req \in Requests : req.parallel /\ Len(req.engines) > 1 /\ Start(req)

NextFanOut ==
    \/ StartFanOut
    \/ TaskTopAny
    \/ TaskCacheAny
    \/ TaskInvokeAny
    \/ CollectAny
    \/ ParallelReturn
    \/ Finish

\* A parallel search that has begun goes on: the pool has one worker per
\* submitted task, every adapter call returns or raises (each adapter sets a
\* timeout on its requests), and the caller's thread runs.
Fairness ==
    /\ \A k \in 1..2 : /\ WF_vars(TaskTop(k))
                        /\ WF_vars(TaskCache(k))
                        /\ WF_vars(TaskInvoke(k))
                        /\ WF_vars(Collect(k))
    /\ WF_vars(ParallelReturn)
    /\ WF_vars(Finish)

SpecFanOut == Init /\ [][NextFanOut]_vars /\ Fairness

\* ------------------------------------------------------------ claims: cache
OldestEntries(c) ==
    {i \in DOMAIN c : \A j \in DOMAIN c : c[i].created_at <= c[j].created_at}

\* C1: whatever get/set/clear/get_stats calls are made, in any order, the cache
\* never stores more than max_size entries (and no key twice).
C1_NeverAboveMaxSize ==
    /\ Len(cache) <= max_size
    /\ \A i, j \in DOMAIN cache : cache[i].key = cache[j].key => i = j

\* A set() into a full cache has just returned and the cache is full again.
C1_Witness ==
    /\ ret.op = "set"
    /\ ret.size_before = max_size
    /\ Len(cache) = max_size

\* C2 as stated: every set() into a cache of exactly max_size entries, whatever
\* the key, leaves exactly max_size entries, an entry of least created_at gone
\* (or replaced by the new entry of its key).
C2_Original ==
    [][\A q \in CacheQueries, e \in CacheEngines, p \in CacheParams, r \in CacheResults :
        (Len(cache) = max_size /\ set(q, e, p, r)) =>
            /\ Len(cache') = max_size
            /\ \E i \in OldestEntries(cache) :
                  \/ cache[i].key \notin CacheKeys(cache')
                  \/ cache[i].key = _generate_key(q, e, p)]_vars

\* C2 amended: a set() into a cache of exactly max_size entries removes one
\* entry of least created_at and keeps every other entry; with a key that was
\* not stored, or the key of the removed entry, max_size entries remain, and
\* with any other stored key max_size - 1 entries remain.
C2_EvictsOldest ==
    [][\A q \in CacheQueries, e \in CacheEngines, p \in CacheParams, r \in CacheResults :
        (Len(cache) = max_size /\ set(q, e, p, r)) =>
            LET key == _generate_key(q, e, p)
            IN \E i \in OldestEntries(cache) :
                  /\ cache[i].key \notin CacheKeys(cache') \/ cache[i].key = key
                  /\ \A j \in DOMAIN cache :
                        (j # i /\ cache[j].key # key) => cache[j] \in Range(cache')
                  /\ key \in CacheKeys(cache')
                  /\ Len(cache') = IF key \in CacheKeys(cache) /\ key # cache[i].key
                                   THEN max_size - 1 ELSE max_size]_vars

\* A set() of a key that was not stored has just met a full cache.
C2_Witness ==
    /\ ret.op = "set"
    /\ ret.size_before = max_size
    /\ ~ret.stored

\* C3: a get() of a stored entry at a clock reading >= its expires_at returns
\* None and deletes the entry, so that get_stats() then reports one entry
\* less in total and counts as active only the other unexpired entries.
C3_ExpiredIsMissAndRemoved ==
    [][\A q \in CacheQueries, e \in CacheEngines, p \in CacheParams :
        LET key == _generate_key(q, e, p)
        IN (/\ key \in CacheKeys(cache)
            /\ now >= cache[IndexOf(cache, key)].expires_at
            /\ get(q, e, p)) =>
               /\ ret'.value = None
               /\ key \notin CacheKeys(cache')
               /\ get_stats(cache', now').total_entries = Len(cache) - 1
               /\ get_stats(cache', now').active_entries =
                     Cardinality({i \in DOMAIN cache :
                                    cache[i].key # key /\ now' < cache[i].expires_at})]_vars

\* A get() has just found its entry expired.
C3_Witness ==
    /\ ret.op = "get"
    /\ ret.expired
    /\ ret.value = None

\* ---------------------------------------------------------- claims: limiter
\* The earlier admitted calls on the key of call i.
AdmittedBefore(i) ==
    {j \in 1..(i - 1) : calls[j].key = calls[i].key /\ calls[j].allowed}

\* Of the admitted calls before call i, the max_requests-th most recent one.
Pivot(i) ==
    CHOOSE p \in AdmittedBefore(i) :
        Cardinality({j \in AdmittedBefore(i) : j >= p}) = max_requests

\* C4: of the is_allowed calls made on one key, a call is admitted while fewer
\* than max_requests calls were admitted before it; after that it is rejected
\* as long as the max_requests-th most recent admitted call is less than
\* window_seconds old, and admitted again once that call is older than
\* window_seconds, however many calls were rejected in between.
C4_WindowAdmission ==
    \A i \in DOMAIN calls :
        IF Cardinality(AdmittedBefore(i)) < max_requests
        THEN calls[i].allowed
        ELSE /\ calls[i].t - calls[Pivot(i)].t < window_seconds => ~calls[i].allowed
             /\ calls[i].t - calls[Pivot(i)].t > window_seconds => calls[i].allowed

\* max_requests calls on a key were admitted, a later one was rejected, and a
\* call made once the window had passed was admitted again.
C4_Witness ==
    \E i, l \in DOMAIN calls :
        /\ i < l
        /\ calls[i].key = calls[l].key
        /\ ~calls[i].allowed
        /\ calls[l].allowed
        /\ Cardinality(AdmittedBefore(i)) >= max_requests
        /\ calls[l].t - calls[Pivot(l)].t > window_seconds

\* C5 as stated: is_allowed(k), wait_time(k) and reset(k), for any string k,
\* leave the window of every other key as it was, and only reset() without a
\* key empties the limiter.
C5_Original ==
    [][\A k \in RateKeys :
         /\ (is_allowed(k) \/ wait_time(k) \/ reset(Some(k))) =>
                \A k2 \in DOMAIN requests \ {k} :
                    k2 \in DOMAIN requests' /\ requests'[k2] = requests[k2]
         /\ (is_allowed(k) /\ ret'.allowed) =>
                Len(Prune(IF k \in DOMAIN requests THEN requests[k] ELSE <<>>,
                          now - window_seconds)) < max_requests]_vars

\* ----------------------------------------------------------- claims: search
Done == pc = "done"

\* The strategy search() takes for the request.
Serial == ~(request.parallel /\ Len(request.engines) > 1)

resp == response[1]

\* Positions of the history at which a provider won: a cache hit, or a
\* non-empty list returned by the adapter.
Wins == {m \in DOMAIN trace : trace[m].kind \in {"cache", "invoke"} /\ trace[m].ok}

\* Positions of the history at which a provider failed with a reason.
Failures ==
    {m \in DOMAIN trace :
        \/ trace[m].kind \in {"unknown", "raise"}
        \/ trace[m].kind = "rate" /\ ~trace[m].ok}

KindRank(kind) ==
    CASE kind = "unknown" -> 1
      [] kind = "rate" -> 1
      [] kind = "cache" -> 2
      [] kind = "invoke" -> 3
      [] kind = "raise" -> 3
      [] kind = "store" -> 4

\* C6: in the serial strategy the engines are handled in request order, none
\* skipped, each one rate-checked, then looked up, then invoked; and once one
\* has a cache hit or returns results, nothing is done for a later engine.
C6_SerialOrder ==
    (pc \in {"top", "cache", "invoke", "finish", "done"} /\ Serial) =>
        /\ \A m, n \in DOMAIN trace :
              m < n => \/ trace[m].idx < trace[n].idx
                       \/ /\ trace[m].idx = trace[n].idx
                          /\ KindRank(trace[m].kind) < KindRank(trace[n].kind)
        /\ \A m \in DOMAIN trace : \A j \in 1..(trace[m].idx - 1) :
              \E n \in DOMAIN trace : trace[n].idx = j
        /\ \A m \in Wins : \A n \in DOMAIN trace :
              n > m => trace[n].idx = trace[m].idx /\ trace[n].kind = "store"

\* A serial search ended that the first of two engines won.
C6_Witness ==
    /\ Done
    /\ Serial
    /\ \E m \in Wins : trace[m].idx < Len(request.engines)

\* C7: a serial search returns the deduplicated results of the first engine
\* that had a cache hit or returned results, and names that engine alone.
C7_FirstWinnerOnly ==
    (Done /\ Serial /\ Wins # {}) =>
        LET first == trace[Min(Wins)]
        IN /\ resp.results = _deduplicate_results(first.value)
           /\ resp.engines_used = <<request.engines[first.idx]>>
           /\ \A m \in DOMAIN trace : trace[m].idx <= first.idx

\* A serial search ended that failed over from an engine that returned
\* nothing to the second one.
C7_Witness ==
    /\ Done
    /\ Serial
    /\ Wins # {}
    /\ trace[Min(Wins)].idx = 2
    /\ \E m \in DOMAIN trace : trace[m].kind = "invoke" /\ ~trace[m].ok
    /\ resp.success

\* C8 as stated: when no requested engine has a cache hit or returns results,
\* under either strategy, the response has success = False, no results and a
\* non-empty errors list.
C8_Original ==
    (Done /\ Wins = {}) =>
        /\ ~resp.success
        /\ resp.results = <<>>
        /\ resp.errors # None
        /\ resp.errors[1] # <<>>

\* C9 as stated: under either strategy every unknown engine, rate-limit
\* rejection and exception of the search has its string in the response's
\* errors, and results of the engines that succeeded are returned.
C9_Original ==
    Done =>
        /\ Cardinality(Failures) =
              (IF resp.errors = None THEN 0 ELSE Len(resp.errors[1]))
        /\ (\E m \in Wins : \E n \in DOMAIN trace[m].value :
                url_normalized(trace[m].value[n]) # <<>>) => resp.results # <<>>

\* C10 as stated: engines_used of a response names no engine twice and only
\* engines that have a result in the response.
C10_Original ==
    Done =>
        /\ \A m, n \in DOMAIN resp.engines_used :
              resp.engines_used[m] = resp.engines_used[n] => m = n
        /\ \A m \in DOMAIN resp.engines_used :
              \E n \in DOMAIN resp.results :
                 \/ resp.results[n].engine = resp.engines_used[m]
                 \/ /\ resp.engines_used[m] \in DOMAIN engines
                    /\ resp.results[n].engine = engines[resp.engines_used[m]]

\* ------------------------------------------------- claims: parallel strategy
Parallel == ~Serial

\* What engine k of the request contributed: its cache hit or the list its
\* adapter returned, empty when it had neither.
Contribution(k) ==
    LET S == {m \in Wins : trace[m].idx = k}
    IN IF S = {} THEN <<>> ELSE trace[CHOOSE m \in S : TRUE].value

BothContribute ==
    /\ Len(request.engines) = 2
    /\ Contribution(1) # <<>>
    /\ Contribution(2) # <<>>

\* No result of a is a duplicate of one of b or of another one of a or b, and
\* every one has a URL.
Disjoint(a, b) ==
    LET all == a \o b
    IN \A m, n \in DOMAIN all :
          /\ url_normalized(all[m]) # <<>>
          /\ m # n => /\ url_normalized(all[m]) # url_normalized(all[n])
                      /\ title_lowered(all[m]) # title_lowered(all[n])

\* The first n entries of a list.
FirstN(rs, n) == [m \in 1..(IF n < Len(rs) THEN n ELSE Len(rs)) |-> rs[m]]

NamesUsed == {IF n \in DOMAIN engines THEN engines[n] ELSE n : n \in Range(resp.engines_used)}

\* C11 as stated: two engines that return disjoint non-empty lists are both
\* named in engines_used, and the results are the union cut to max_results,
\* whatever max_results is.
C11_Original ==
    (Done /\ Parallel /\ BothContribute /\ Disjoint(Contribution(1), Contribution(2))) =>
        /\ \E agg \in {Contribution(1) \o Contribution(2),
                       Contribution(2) \o Contribution(1)} :
              resp.results = FirstN(_deduplicate_results(agg), request.max_results)
        /\ \A k \in 1..2 : engines[request.engines[k]] \in NamesUsed

\* C11: a parallel search of two engines that both contribute returns the
\* deduplicated first max_results entries of their lists joined in one of the
\* two completion orders, and engines_used names the adapters that have an
\* entry among those first max_results: both of them when the two lists
\* together are not longer than max_results.
C11_ParallelAggregate ==
    (Done /\ Parallel /\ BothContribute) =>
        /\ \E agg \in {Contribution(1) \o Contribution(2),
                       Contribution(2) \o Contribution(1)} :
              LET cut == FirstN(agg, request.max_results)
              IN /\ resp.results = _deduplicate_results(cut)
                 /\ resp.engines_used = engines_used_of(cut)
        /\ Len(Contribution(1)) + Len(Contribution(2)) <= request.max_results =>
              \A k \in 1..2 : engines[request.engines[k]] \in NamesUsed

\* A parallel search of two engines with disjoint results ended, with room for
\* both lists.
C11_Witness ==
    /\ Done
    /\ Parallel
    /\ BothContribute
    /\ Disjoint(Contribution(1), Contribution(2))
    /\ Len(resp.results) = 2
    /\ Len(resp.engines_used) = 2

\* The same, with max_results too small for both lists.
C11_WitnessCut ==
    /\ Done
    /\ Parallel
    /\ BothContribute
    /\ Disjoint(Contribution(1), Contribution(2))
    /\ request.max_results = 1
    /\ Len(resp.results) = 1

\* Events of the history that engine k of the request accounts for.
EventsOf(k) == SelectSeq(trace, LAMBDA e : e.idx = k)

\* Task k ran to its end: it found the engine unknown or throttled, had a
\* cache hit, or called the adapter (and stored what it returned).
RanToEnd(k) ==
    LET evs == EventsOf(k)
        last == evs[Len(evs)]
    IN /\ evs # <<>>
       /\ \/ last.kind \in {"unknown", "invoke", "raise", "store"}
          \/ last.kind = "rate" /\ ~last.ok
          \/ last.kind = "cache" /\ last.ok
       /\ (request.engines[k] \in DOMAIN engines /\ evs[1].ok) =>
              \E n \in DOMAIN evs : evs[n].kind \in {"cache", "invoke", "raise"}

Joined ==
    /\ pc = "parallel" => Len(tasks) = Len(request.engines)
    /\ (Parallel /\ pc \in {"finish", "done"}) =>
           \A k \in 1..Len(request.engines) : RanToEnd(k)

\* C12: the parallel strategy has one task per requested engine; when search()
\* goes on to build its response every task has run to its end, whatever
\* happened to the others; and a parallel search that began returns.
C12_AllTasksJoined == [](Joined) /\ ((pc = "parallel") ~> Done)

\* A parallel search returned in which one engine was unknown and the other
\* one was still called and contributed.
C12_Witness ==
    /\ Done
    /\ Parallel
    /\ \E m \in Failures : trace[m].idx = 1
    /\ Contribution(2) # <<>>
    /\ resp.success

\* ------------------------------------------- _deduplicate_results on its own
\* Results as the adapters build them: links equal up to a trailing slash or a
\* query string, titles equal up to case, and an item without a link.
G2 == Result(<<"u2">>, <<"T1">>, <<"Google">>)

ResultPool == {B1, B0, G1, G2, G3}

RECURSIVE ListsUpTo(_)
ListsUpTo(n) ==
    IF n = 0 THEN {<<>>}
    ELSE LET shorter == ListsUpTo(n - 1)
         IN shorter \cup {Append(l, r) : l \in {x \in shorter : Len(x) = n - 1},
                                         r \in ResultPool}

\* A list is about to go through the pass.
InitDedup ==
    /\ now = 0
    /\ cache = <<>>
    /\ hits = 0
    /\ misses = 0
    /\ requests = << >>
    /\ ret = [op |-> "none"]
    /\ calls = <<>>
    /\ callers = <<>>
    /\ pc = "dedup"
    /\ request = NoRequest
    /\ pos = 0
    /\ results = <<>>
    /\ errors = <<>>
    /\ engines_used = <<>>
    /\ from_cache = FALSE
    /\ tasks = <<>>
    /\ all_results \in ListsUpTo(MaxLen)
    /\ response = None
    /\ trace = <<>>
    /\ searches = 0
    /\ threads = <<>>
    /\ locks = NoLocks
    /\ _search_manager = None
    /\ instances = <<>>

\* results = self._deduplicate_results(results)
DedupPass ==
    /\ pc = "dedup"
    /\ results' = _deduplicate_results(all_results)
    /\ pc' = "once"
    /\ UNCHANGED <<now, cacheVars, limiterVars, processVars, ret, request, pos,
                   errors, engines_used, from_cache, tasks, all_results, response,
                   trace, searches>>

\* The pass applied to its own output.
DedupAgain ==
    /\ pc = "once"
    /\ results' = _deduplicate_results(results)
    /\ pc' = "twice"
    /\ UNCHANGED <<now, cacheVars, limiterVars, processVars, ret, request, pos,
                   errors, engines_used, from_cache, tasks, all_results, response,
                   trace, searches>>

NextDedup == DedupPass \/ DedupAgain

SpecDedup == InitDedup /\ [][NextDedup]_vars

\* ------------------------------------------------------------ claims: dedup
UrlKey(r) == rstrip(BeforeQuery(strip(r.link)), "/")

TitleKey(r) == lower(strip(r.title))

Duplicates(a, b) == UrlKey(a) = UrlKey(b) \/ TitleKey(a) = TitleKey(b)

\* The entries of a list at the positions K, in their order.
RECURSIVE Pick(_, _)
Pick(l, K) ==
    IF l = <<>> THEN <<>>
    ELSE LET init == Pick(SubSeq(l, 1, Len(l) - 1), K)
         IN IF Len(l) \in K THEN Append(init, l[Len(l)]) ELSE init

\* K is the set of positions the pass keeps of l: a position is kept exactly
\* when its result has a URL and duplicates no kept result before it.
KeptPositions(l, K) ==
    \A n \in DOMAIN l :
        n \in K <=> /\ UrlKey(l[n]) # <<>>
                    /\ \A m \in K : m < n => ~Duplicates(l[m], l[n])

\* C13 as stated: the output is a subsequence of the input with pairwise
\* distinct URLs and titles, and every kept result is the first occurrence of
\* its group of duplicates in the input.
C13_Original ==
    pc = "once" =>
        \E K \in SUBSET DOMAIN all_results :
            /\ results = Pick(all_results, K)
            /\ \A m, n \in K : m # n => ~Duplicates(all_results[m], all_results[n])
            /\ \A n \in K : \A m \in 1..(n - 1) : ~Duplicates(all_results[m], all_results[n])

\* C13: the output is the subsequence of the input made of the results that
\* have a URL and duplicate (by normalized URL or by lowercased title) no
\* result kept before them; so its URLs are pairwise distinct, its titles are
\* pairwise distinct, and a kept result is the first of the kept ones among
\* its duplicates (an earlier duplicate may have been dropped for another
\* reason).
C13_DedupKeepsFirstKept ==
    pc = "once" =>
        /\ \E K \in SUBSET DOMAIN all_results :
              /\ KeptPositions(all_results, K)
              /\ results = Pick(all_results, K)
        /\ \A m, n \in DOMAIN results :
              m # n => /\ UrlKey(results[m]) # UrlKey(results[n])
                       /\ TitleKey(results[m]) # TitleKey(results[n])

\* The pass dropped a duplicate by title and kept a later result that has the
\* URL of the dropped one.
C13_Witness ==
    /\ pc = "once"
    /\ all_results = <<B1, G2, G3>>
    /\ results = <<B1, G3>>

\* C14: the pass applied to its own output returns that output, nothing
\* removed and nothing reordered.
C14_DedupIdempotent ==
    [][(pc = "once" /\ pc' = "twice") => results' = results]_vars

\* The pass ran twice on a list of which it had dropped something and kept
\* more than one result.
C14_Witness ==
    /\ pc = "twice"
    /\ Len(results) >= 2
    /\ Len(results) < Len(all_results)

\* --------------------------------------------- the cache key, on its own
\* Arguments of get() and set(): engine names and queries some of which hold
\* a colon, and option dicts equal up to insertion order or differing by a
\* value.
KeyQueries == {<<"c">>, <<"b", ":", "c">>}

KeyEngines == {<<"a">>, <<"a", ":", "b">>}

KeyParams ==
    {<<<<"max_results", 1>>, <<"is_news", FALSE>>>>,
     <<<<"is_news", FALSE>>, <<"max_results", 1>>>>,
     <<<<"max_results", 2>>, <<"is_news", FALSE>>>>}

\* set(), at most max_size times so that nothing is evicted; the history
\* records the arguments.
KeyedSet(query, engine, params) ==
    LET key == _generate_key(query, engine, params)
    IN /\ Cardinality({m \in DOMAIN trace : trace[m].kind = "set"}) < max_size
       /\ cache' = CacheAfterSet(cache, key, <<B1>>, now, now)
       /\ ret' = [op |-> "set", size_before |-> Len(cache),
                  stored |-> key \in CacheKeys(cache)]
       /\ trace' = Append(trace, Event("set", Len(trace) + 1, TRUE,
                                       <<query, engine, params>>))
       /\ UNCHANGED <<now, hits, misses, limiterVars, processVars, pc, request,
                      localVars, response, searches>>

\* get(); the history records the arguments and whether it was a hit.
KeyedGet(query, engine, params) ==
    LET key == _generate_key(query, engine, params)
        out == CacheAfterGet(cache, hits, misses, key, now)
    IN /\ hits + misses < MaxGets
       /\ cache' = out.cache
       /\ hits' = out.hits
       /\ misses' = out.misses
       /\ ret' = [op |-> "get", value |-> out.value,
                  expired |-> /\ key \in CacheKeys(cache)
                              /\ now >= cache[IndexOf(cache, key)].expires_at]
       /\ trace' = Append(trace, Event("get", Len(trace) + 1, out.value # None,
                                       <<query, engine, params>>))
       /\ UNCHANGED <<now, limiterVars, processVars, pc, request, localVars, response,
                      searches>>

KeyedSetAny == \E q \in KeyQueries, e \in KeyEngines, p \in KeyParams : KeyedSet(q, e, p)

KeyedGetAny == \E q \in KeyQueries, e \in KeyEngines, p \in KeyParams : KeyedGet(q, e, p)

NextKey == KeyedSetAny \/ KeyedGetAny

SpecKey == Init /\ [][NextKey]_vars

\* -------------------------------------------------------- claims: cache key
\* Two calls name the same provider, query and set of option pairs.
SameArgs(a, b) == a[1] = b[1] /\ a[2] = b[2] /\ Range(a[3]) = Range(b[3])

PutBefore(n) == {m \in 1..(n - 1) : trace[m].kind = "set"}

\* C15 as stated: a get is a hit when an earlier put (neither expired nor
\* evicted) had the same provider, query and option pairs, in whatever order
\* the options were inserted, and a miss when every earlier put differed in
\* provider, query or an option value.
C15_Original ==
    \A n \in DOMAIN trace :
        trace[n].kind = "get" =>
            (trace[n].ok <=> \E m \in PutBefore(n) : SameArgs(trace[m].value, trace[n].value))

\* ---------------------------------------------- claims: cache administration
\* C16 as stated: SearchCache.clear and SearchManager.clear_cache both leave
\* the cache empty and return the number of entries it held before the call.
C16_Original ==
    [][(clear \/ clear_cache) =>
           /\ cache' = <<>>
           /\ ret'.returned = Some(Len(cache))]_vars

\* ------------------------------------------- claims: per-engine sequence
\* Engine k of the request was unknown or rejected by the limiter.
Refused(k) ==
    \E m \in DOMAIN trace :
        /\ trace[m].idx = k
        /\ \/ trace[m].kind = "unknown"
           \/ trace[m].kind = "rate" /\ ~trace[m].ok

\* C17: in a search, under either strategy, what is done for one engine is in
\* the order rate check, cache lookup, adapter call, cache store; lookup, call
\* and store come only after is_allowed admitted the engine in this search;
\* nothing else is done for an engine that is unknown or rejected; and the
\* search goes on to the engine after it.
C17_RateCheckFirst ==
    /\ \A k \in 1..Len(request.engines) :
          LET evs == EventsOf(k)
          IN /\ \A m, n \in DOMAIN evs :
                    m < n => KindRank(evs[m].kind) < KindRank(evs[n].kind)
             /\ (\E n \in DOMAIN evs : evs[n].kind \in {"cache", "invoke", "raise", "store"})
                    => evs[1].kind = "rate" /\ evs[1].ok
             /\ Refused(k) => Len(evs) = 1
    /\ Done => \A k \in 1..(Len(request.engines) - 1) :
                   Refused(k) => EventsOf(k + 1) # <<>>

\* A search ended in which the first engine was rejected by the limiter and
\* the second one was admitted, called and returned results.
C17_Witness ==
    /\ Done
    /\ Len(request.engines) = 2
    /\ \E m \in DOMAIN trace : trace[m].idx = 1 /\ trace[m].kind = "rate" /\ ~trace[m].ok
    /\ \E m \in DOMAIN trace : trace[m].idx = 2 /\ trace[m].kind = "invoke" /\ trace[m].ok

\* The same in a parallel search.
C17_WitnessParallel ==
    /\ C17_Witness
    /\ Parallel

\* --------------------------------------- is_allowed from concurrent threads
\* Threads calling is_allowed on one RateLimiter(max_requests = RaceLimit).
\* A thread reads time.time() (line 135) and only then waits for the lock.
InitRace ==
    /\ now = 0
    /\ cache = <<>>
    /\ hits = 0
    /\ misses = 0
    /\ requests = << >>
    /\ ret = [op |-> "none"]
    /\ calls = <<>>
    /\ callers = [c \in 1..NumCallers |-> [pc |-> "out", t |-> 0]]
    /\ pc = "idle"
    /\ request = NoRequest
    /\ pos = 0
    /\ results = <<>>
    /\ errors = <<>>
    /\ engines_used = <<>>
    /\ from_cache = FALSE
    /\ tasks = <<>>
    /\ all_results = <<>>
    /\ response = None
    /\ trace = <<>>
    /\ searches = 0
    /\ threads = <<>>
    /\ locks = NoLocks
    /\ _search_manager = None
    /\ instances = <<>>

RaceKey == <<"a">>

\* now = time.time()
ReadClock(c) ==
    /\ callers[c].pc = "out"
    /\ Len(calls) + Cardinality({d \in DOMAIN callers : callers[d].pc = "read"})
          < MaxRaceCalls
    /\ callers' = [callers EXCEPT ![c] = [pc |-> "read", t |-> now]]
    /\ UNCHANGED <<now, cacheVars, requests, calls, ret, searchVars, processVars>>

\* with self.lock: the whole body, with the reading taken before.
Locked(c) ==
    LET out == IsAllowedWithLimit(requests, RaceKey, callers[c].t, RaceLimit)
    IN /\ callers[c].pc = "read"
       /\ requests' = out.requests
       /\ calls' = Append(calls, [key |-> RaceKey, t |-> callers[c].t,
                                  allowed |-> out.value])
       /\ callers' = [callers EXCEPT ![c] = [pc |-> "out", t |-> 0]]
       /\ ret' = [op |-> "is_allowed", key |-> RaceKey, now |-> callers[c].t,
                  allowed |-> out.value]
       /\ UNCHANGED <<now, cacheVars, searchVars, processVars>>

ReadClockAny == \E c \in DOMAIN callers : ReadClock(c)

LockedAny == \E c \in DOMAIN callers : Locked(c)

NextRace == Tick \/ ReadClockAny \/ LockedAny

SpecRace == InitRace /\ [][NextRace]_vars

\* ------------------------------------------- claims: concurrent is_allowed
\* Admitted calls on the key whose recorded timestamp lies in [a, a + window_seconds).
AdmittedIn(a) ==
    {i \in DOMAIN calls : /\ calls[i].key = RaceKey
                          /\ calls[i].allowed
                          /\ a <= calls[i].t
                          /\ calls[i].t < a + window_seconds}

\* C18 as stated: however concurrent is_allowed calls interleave, the admitted
\* calls of a key whose recorded timestamps lie within one interval of
\* window_seconds are never more than the limiter's max_requests.
C18_Original ==
    \A a \in 0..MaxTime : Cardinality(AdmittedIn(a)) <= RaceLimit

\* ------------------------------------------------------- claims: wait_time
\* C19: a step that returns from wait_time(key) is a step of wait_time and
\* changes no window; it returns 0 exactly when is_allowed(key), called at the
\* same instant, would admit the call, and
\* otherwise the oldest timestamp of the key plus window_seconds minus now,
\* which is then positive.
C19_WaitTimeAgreesWithIsAllowed ==
    [][(ret'.op = "wait_time" /\ ret' # ret) =>
          LET k == ret'.key
          IN /\ wait_time(k)
             /\ requests' = requests
             /\ (ret'.wait = 0) <=> IsAllowedAfter(requests, k, now).value
             /\ ret'.wait # 0 =>
                   /\ ret'.wait > 0
                   /\ \E i \in DOMAIN requests[k] :
                         /\ \A j \in DOMAIN requests[k] : requests[k][i] <= requests[k][j]
                         /\ ret'.wait = requests[k][i] + window_seconds - now]_vars

\* wait_time returned 0 for a key whose window is full of timestamps that are
\* all older than window_seconds.
C19_Witness ==
    /\ ret.op = "wait_time"
    /\ ret.wait = 0
    /\ ret.key \in DOMAIN requests
    /\ Len(requests[ret.key]) >= max_requests
    /\ \A i \in DOMAIN requests[ret.key] : requests[ret.key][i] + window_seconds < now

\* wait_time returned a positive wait.
C19_WitnessPositive ==
    /\ ret.op = "wait_time"
    /\ ret.wait > 0

\* ------------------------------------------------ claims: hit/miss counters
\* C20: a get adds one to exactly one of hits and misses, to hits when it
\* returns results and to misses when the entry is absent or expired; a step
\* that is not a get (set, clear, get_stats, the clock) changes neither
\* counter, so neither ever decreases or is reset.
C20_CountersCountGets ==
    [][/\ (ret'.op = "get" /\ CacheGetAny) =>
            /\ \/ ret'.value # None /\ hits' = hits + 1 /\ misses' = misses
               \/ ret'.value = None /\ hits' = hits /\ misses' = misses + 1
            /\ ret'.expired => ret'.value = None
       /\ ~(ret'.op = "get" /\ CacheGetAny) => hits' = hits /\ misses' = misses]_vars

\* A get found its entry expired and counted a miss, after entries were put.
C20_Witness ==
    /\ ret.op = "get"
    /\ ret.expired
    /\ misses = 1
    /\ hits = 0

\* ------------------------------- get_cache_stats while other threads run
\* SearchManager.get_cache_stats takes no lock: it reads self.cache.hits,
\* self.cache.misses and self.cache.cache one after the other (lines 709-716),
\* and between two of its reads another thread may run a whole get() or set(),
\* each of which holds the cache lock for its body.
\* threads[1] is the thread inside get_cache_stats: where it stands, the values
\* it has read so far, and (history) the cache states that existed meanwhile
\* as triples <<len(cache), hits, misses>>.
CacheState(c, h, m) == <<Len(c), h, m>>

StatsIdle ==
    [pc |-> "idle", hits_709 |-> 0, total_requests |-> 0,
     hit_rate |-> [num |-> 0, den |-> 1], size |-> 0, hits |-> 0, misses |-> 0,
     snaps |-> {}]

InitStats ==
    /\ now = 0
    /\ cache = <<>>
    /\ hits = 0
    /\ misses = 0
    /\ requests = << >>
    /\ ret = [op |-> "none"]
    /\ calls = <<>>
    /\ callers = <<>>
    /\ pc = "idle"
    /\ request = NoRequest
    /\ pos = 0
    /\ results = <<>>
    /\ errors = <<>>
    /\ engines_used = <<>>
    /\ from_cache = FALSE
    /\ tasks = <<>>
    /\ all_results = <<>>
    /\ response = None
    /\ trace = <<>>
    /\ searches = 0
    /\ threads = <<StatsIdle>>
    /\ locks = NoLocks
    /\ _search_manager = None
    /\ instances = <<>>

\* The stats thread goes to position st with its locals changed to loc.
StatsStep(loc, st) ==
    /\ threads' = <<[loc EXCEPT !.pc = st]>>
    /\ UNCHANGED <<now, cacheVars, limiterVars, ret, searchVars, locks,
                   _search_manager, instances>>

\* A caller enters get_cache_stats.
StatsCall ==
    /\ threads[1].pc = "idle"
    /\ StatsStep([StatsIdle EXCEPT !.snaps = {CacheState(cache, hits, misses)}],
                 "709_hits")

\* line 709: self.cache.hits + self.cache.misses, the left operand first
StatsRead709Hits ==
    /\ threads[1].pc = "709_hits"
    /\ StatsStep([threads[1] EXCEPT !.hits_709 = hits], "709_misses")

StatsRead709Misses ==
    /\ threads[1].pc = "709_misses"
    /\ StatsStep([threads[1] EXCEPT !.total_requests = threads[1].hits_709 + misses],
                 "710")

\* line 710: hits / total_requests * 100 if total_requests > 0 else 0.0; the
\* rate is kept as the fraction num / den (of 1, not of 100).
hit_rate_of(h, total_requests) ==
    IF total_requests > 0 THEN [num |-> h, den |-> total_requests]
    ELSE [num |-> 0, den |-> 1]

StatsRead710 ==
    /\ threads[1].pc = "710"
    /\ StatsStep([threads[1] EXCEPT
                     !.hit_rate = hit_rate_of(hits, threads[1].total_requests)],
                 "713")

\* line 713: len(self.cache.cache)
StatsRead713 ==
    /\ threads[1].pc = "713"
    /\ StatsStep([threads[1] EXCEPT !.size = Len(cache)], "715")

\* line 715: self.cache.hits
StatsRead715 ==
    /\ threads[1].pc = "715"
    /\ StatsStep([threads[1] EXCEPT !.hits = hits], "716")

\* line 716: self.cache.misses, and the dict is returned
StatsReturn ==
    /\ threads[1].pc = "716"
    /\ threads' = <<[StatsIdle EXCEPT !.pc = "returned"]>>
    /\ ret' = [op |-> "get_cache_stats",
               cache_stats |-> [size |-> threads[1].size, max_size |-> max_size,
                                hits |-> threads[1].hits, misses |-> misses,
                                hit_rate |-> threads[1].hit_rate,
                                ttl_seconds |-> ttl_seconds],
               snaps |-> threads[1].snaps]
    /\ UNCHANGED <<now, cacheVars, limiterVars, searchVars, locks, _search_manager,
                   instances>>

\* The cache states seen so far, with the one another thread has just made.
Snapped(c, h, m) ==
    IF threads[1].pc \in {"idle", "returned"} THEN threads
    ELSE <<[threads[1] EXCEPT !.snaps = @ \cup {CacheState(c, h, m)}]>>

\* Another thread runs SearchCache.get.
ConcurrentGet ==
    \E q \in CacheQueries :
        LET key == _generate_key(q, bing, cache_params(1, FALSE))
            out == CacheAfterGet(cache, hits, misses, key, now)
        IN /\ hits + misses < MaxConcurrentGets
           /\ cache' = out.cache
           /\ hits' = out.hits
           /\ misses' = out.misses
           /\ threads' = Snapped(out.cache, out.hits, out.misses)
           /\ UNCHANGED <<now, limiterVars, ret, searchVars, locks, _search_manager,
                          instances>>

\* Another thread runs SearchCache.set.
ConcurrentSet ==
    \E q \in CacheQueries, r \in CacheResults :
        LET key == _generate_key(q, bing, cache_params(1, FALSE))
            c == CacheAfterSet(cache, key, r, now, now)
        IN /\ cache' = c
           /\ threads' = Snapped(c, hits, misses)
           /\ UNCHANGED <<now, hits, misses, limiterVars, ret, searchVars, locks,
                          _search_manager, instances>>

NextStats ==
    \/ StatsCall
    \/ StatsRead709Hits
    \/ StatsRead709Misses
    \/ StatsRead710
    \/ StatsRead713
    \/ StatsRead715
    \/ StatsReturn
    \/ ConcurrentGet
    \/ ConcurrentSet

SpecStats == InitStats /\ [][NextStats]_vars

\* C21 as stated: the statistics get_cache_stats returns describe one single
\* cache state: size, hits and misses are those of one state the cache was in
\* during the call, hit_rate is hits / (hits + misses) of the returned values
\* (0 when there was no lookup), and it never exceeds 100%.
C21_Original ==
    ret.op = "get_cache_stats" =>
        LET st == ret.cache_stats
        IN /\ <<st.size, st.hits, st.misses>> \in ret.snaps
           /\ IF st.hits + st.misses = 0 THEN st.hit_rate.num = 0
              ELSE st.hit_rate.num * (st.hits + st.misses) = st.hits * st.hit_rate.den
           /\ st.hit_rate.num <= st.hit_rate.den

\* ----------------------------------------------- the two locks, by thread
\* Threads calling search (an attempt on one engine at a time, or a fan-out
\* whose workers each make one attempt), get_cache_stats, get_stats, clear,
\* clear_cache and reset on one SearchManager.  Only what matters to the locks
\* is kept: where each thread stands and which thread holds each Lock; every
\* branch of the code may be taken.  threading.Lock is not reentrant: an
\* acquire waits while the lock is held, by whatever thread.
Edge(from, kind, lock, to) == [from |-> from, kind |-> kind, lock |-> lock, to |-> to]

\* "with lock:" entered at position entry; the block is left for one of exits.
Section(entry, inside, lock, exits) ==
    {Edge(entry, "acquire", lock, inside)}
        \cup {Edge(inside, "release", lock, to) : to \in exits}

\* One attempt of search() on a registered engine (lines 561-602 and 635-666):
\* is_allowed, then wait_time when rejected, else cache.get if use_cache, the
\* adapter on a miss, and cache.set of its results if use_cache.
attempt_edges ==
    Section("is_allowed", "in_is_allowed", "limiter", {"wait_time", "get", "search"})
        \cup Section("wait_time", "in_wait_time", "limiter", {"idle"})
        \cup Section("get", "in_get", "cache", {"idle", "search"})
        \cup {Edge("search", "invoke", "none", to) : to \in {"set", "idle"}}
        \cup Section("set", "in_set", "cache", {"idle"})

\* SearchManager.clear_cache calling SearchCache.clear inside its with block.
clear_cache_delegates ==
    {Edge("clear_cache", "acquire", "cache", "in_clear_cache"),
     Edge("in_clear_cache", "call", "none", "clear")}

\* SearchManager.clear_cache (lines 723-727): it clears the dict itself.
clear_cache_edges == Section("clear_cache", "in_clear_cache", "cache", {"idle"})

Program ==
    attempt_edges
        \cup clear_cache_edges
        \cup Section("clear", "in_clear", "cache", {"idle"})
        \cup Section("get_stats", "in_get_stats", "cache", {"idle"})
        \cup Section("reset", "in_reset", "limiter", {"idle"})
        \cup {Edge("get_cache_stats", "read", "none", "idle")}
        \cup {Edge("as_completed", "join", "none", "idle")}

\* The engines of a fan-out: line 549 takes it for two engines or more.
FanOutEngines == <<bing, google>>

\* Threads 1..NumThreads call the API; the others are the workers of the pool
\* a fan-out creates, max_workers = len(engines), one fan-out at a time.
Callers == 1..NumThreads

Pool == (NumThreads + 1)..(NumThreads + Len(FanOutEngines))

\* What a caller may call on the manager, its cache or its limiter.
Entries == {"is_allowed", "get_cache_stats", "get_stats", "clear", "clear_cache", "reset"}

InitLocks ==
    /\ now = 0
    /\ cache = <<>>
    /\ hits = 0
    /\ misses = 0
    /\ requests = << >>
    /\ ret = [op |-> "none"]
    /\ calls = <<>>
    /\ callers = <<>>
    /\ pc = "idle"
    /\ request = NoRequest
    /\ pos = 0
    /\ results = <<>>
    /\ errors = <<>>
    /\ engines_used = <<>>
    /\ from_cache = FALSE
    /\ tasks = <<>>
    /\ all_results = <<>>
    /\ response = None
    /\ trace = <<>>
    /\ searches = 0
    /\ threads = [th \in Callers \cup Pool |-> [pc |-> "idle", parent |-> 0]]
    /\ locks = NoLocks
    /\ _search_manager = None
    /\ instances = <<>>

lockFrame == <<now, cacheVars, limiterVars, ret, searchVars, _search_manager, instances>>

\* A thread enters one of the operations.
Call(th, entry) ==
    /\ threads[th].pc = "idle"
    /\ threads' = [threads EXCEPT ![th].pc = entry]
    /\ UNCHANGED <<locks, lockFrame>>

\* A thread enters _parallel_search: it submits one search_engine task per
\* engine to workers of its pool (lines 669-672) and waits in as_completed.
Submit(th) ==
    /\ threads[th].pc = "idle"
    /\ \A w \in Pool : threads[w].pc = "idle"
    /\ threads' = [t \in DOMAIN threads |->
                      IF t = th THEN [pc |-> "as_completed", parent |-> 0]
                      ELSE IF t \in Pool THEN [pc |-> "is_allowed", parent |-> th]
                      ELSE threads[t]]
    /\ UNCHANGED <<locks, lockFrame>>

\* The threads still running a task submitted by th.
WorkersOf(th) == {w \in DOMAIN threads : threads[w].parent = th}

\* Whether thread th can take edge e now.
CanTake(th, e) ==
    /\ e.from = threads[th].pc
    /\ CASE e.kind = "acquire" -> locks[e.lock] = 0
         [] e.kind = "release" -> locks[e.lock] = th
         [] e.kind = "join" -> WorkersOf(th) = {}
         [] OTHER -> TRUE

\* Thread th takes edge e; a worker that is through has left its pool task.
Step(th, e) ==
    /\ CanTake(th, e)
    /\ threads' = [threads EXCEPT ![th] =
                      [pc |-> e.to,
                       parent |-> IF e.to = "idle" THEN 0 ELSE threads[th].parent]]
    /\ locks' = CASE e.kind = "acquire" -> [locks EXCEPT ![e.lock] = th]
                  [] e.kind = "release" -> [locks EXCEPT ![e.lock] = 0]
                  [] OTHER -> locks
    /\ UNCHANGED lockFrame

CallAny == \E th \in Callers, entry \in Entries : Call(th, entry)

SubmitAny == \E th \in Callers : Submit(th)

StepAny == \E th \in DOMAIN threads, e \in Program : Step(th, e)

NextLocks == CallAny \/ SubmitAny \/ StepAny

SpecLocks == InitLocks /\ [][NextLocks]_vars

\* The locks thread th holds, and the edges that leave its position.
Holds(th) == {l \in DOMAIN locks : locks[l] = th}

EdgesAt(th) == {e \in Program : e.from = threads[th].pc}

InitSingleton ==
    /\ now = 0
    /\ cache = <<>>
    /\ hits = 0
    /\ misses = 0
    /\ requests = << >>
    /\ ret = [op |-> "none"]
    /\ calls = <<>>
    /\ callers = <<>>
    /\ pc = "idle"
    /\ request = NoRequest
    /\ pos = 0
    /\ results = <<>>
    /\ errors = <<>>
    /\ engines_used = <<>>
    /\ from_cache = FALSE
    /\ tasks = <<>>
    /\ all_results = <<>>
    /\ response = None
    /\ trace = <<>>
    /\ searches = 0
    /\ threads = [th \in Callers |-> [pc |-> "idle", made |-> None, got |-> None]]
    /\ locks = NoLocks
    /\ _search_manager = None
    /\ instances = <<>>

singletonFrame == <<now, cacheVars, limiterVars, ret, searchVars, locks>>

\* A thread calls get_search_manager.
GetManagerCall(th) ==
    /\ threads[th].pc = "idle"
    /\ threads' = [threads EXCEPT ![th] = [pc |-> "737", made |-> None, got |-> @.got]]
    /\ UNCHANGED <<_search_manager, instances, singletonFrame>>

\* line 737: if _search_manager is None
GetManagerTest(th) ==
    /\ threads[th].pc = "737"
    /\ threads' = [threads EXCEPT ![th].pc = IF _search_manager = None THEN "738" ELSE "739"]
    /\ UNCHANGED <<_search_manager, instances, singletonFrame>>

\* line 738, right-hand side: SearchManager()
GetManagerConstruct(th) ==
    /\ threads[th].pc = "738"
    /\ instances' = Append(instances, Len(instances) + 1)
    /\ threads' = [threads EXCEPT ![th] = [pc |-> "738_store", made |-> Some(Len(instances) + 1),
                                           got |-> @.got]]
    /\ UNCHANGED <<_search_manager, singletonFrame>>

\* line 738: the global is assigned
GetManagerStore(th) ==
    /\ threads[th].pc = "738_store"
    /\ _search_manager' = threads[th].made
    /\ threads' = [threads EXCEPT ![th].pc = "739"]
    /\ UNCHANGED <<instances, singletonFrame>>

\* line 739: return _search_manager
GetManagerReturn(th) ==
    /\ threads[th].pc = "739"
    /\ threads' = [threads EXCEPT ![th] = [pc |-> "idle", made |-> None,
                                           got |-> _search_manager]]
    /\ UNCHANGED <<_search_manager, instances, singletonFrame>>

NextSingleton ==
    \E th \in Callers :
        \/ GetManagerCall(th)
        \/ GetManagerTest(th)
        \/ GetManagerConstruct(th)
        \/ GetManagerStore(th)
        \/ GetManagerReturn(th)

SpecSingleton == InitSingleton /\ [][NextSingleton]_vars

\* C23 as stated: get_search_manager constructs the SearchManager exactly once
\* per process and every call returns that same object, also when the first
\* calls are made by several threads at once.
C23_Original ==
    /\ Len(instances) <= 1
    /\ \A a, b \in Callers :
          (threads[a].got # None /\ threads[b].got # None) => threads[a].got = threads[b].got

\* C24: while a search() called with use_cache = False is in progress, under
\* either strategy, no step changes the stored entries or the hit and miss
\* counters, it makes no cache lookup and stores nothing, and its response has
\* from_cache = False.
C24_NoCacheUntouched ==
    /\ [][~request'.use_cache => /\ cache' = cache
                                 /\ hits' = hits
                                 /\ misses' = misses]_vars
    /\ [](~request.use_cache =>
            /\ \A m \in DOMAIN trace : trace[m].kind \notin {"cache", "store"}
            /\ \A k \in DOMAIN tasks : \A m \in DOMAIN tasks[k].log :
                  tasks[k].log[m].kind \notin {"cache", "store"}
            /\ Done => ~resp.from_cache)

\* A search with use_cache = False ended with results while the cache held an
\* entry and had counted a lookup, both from the search before it.
C24_Witness ==
    /\ Done
    /\ ~request.use_cache
    /\ resp.success
    /\ Len(cache) > 0
    /\ hits + misses > 0

\* The same for a fan-out.
C24_WitnessParallel ==
    /\ C24_Witness
    /\ Parallel

\* The orders in which the tasks of S may have completed.
Orders(S) ==
    {o \in [1..Cardinality(S) -> S] : \A m, n \in DOMAIN o : o[m] = o[n] => m = n}

Collected == {k \in DOMAIN tasks : tasks[k].pc = "collected"}

\* C25: in the parallel strategy each collected task's whole list is appended
\* to the end of the aggregate, one task at a time, so that the aggregate is
\* the lists of the collected tasks joined in the order of their completion;
\* _parallel_search returns its first max_results entries, the deduplication
\* pass runs on those, and the response never holds more than max_results
\* results.
C25_AggregateThenCut ==
    /\ [][/\ (pc = "parallel" /\ pc' = "parallel") =>
                LET newly == {k \in DOMAIN tasks :
                                 tasks[k].pc # "collected" /\ tasks'[k].pc = "collected"}
                IN IF newly = {} THEN all_results' = all_results
                   ELSE \E k \in newly : /\ newly = {k}
                                         /\ all_results' = all_results \o tasks[k].out
          /\ (pc = "parallel" /\ pc' = "finish") =>
                /\ results' = FirstN(all_results, request.max_results)
                /\ Len(results') <= request.max_results
          /\ (pc = "finish" /\ Parallel /\ pc' = "done") =>
                response'[1].results = IF results = <<>> THEN <<>>
                                       ELSE _deduplicate_results(results)]_vars
    /\ [](/\ pc = "parallel" =>
                \E o \in Orders(Collected) :
                    all_results = Concat([n \in DOMAIN o |-> tasks[o[n]].out])
          /\ (Done /\ Parallel) => /\ Len(resp.results) <= request.max_results
                                   /\ resp.count <= request.max_results)

\* A fan-out is about to return: the second engine's task completed first, so
\* its list leads the aggregate, and the cut has removed the first engine's.
C25_Witness ==
    /\ pc = "finish"
    /\ Parallel
    /\ BothContribute
    /\ request.max_results = 1
    /\ results = Contribution(2)

\* Both lists are in the aggregate, the two results of the second engine
\* first, each list whole.
C25_WitnessOrder ==
    /\ pc = "parallel"
    /\ Collected = {1, 2}
    /\ tasks[1].out # <<>>
    /\ Len(tasks[2].out) = 2
    /\ all_results = tasks[2].out \o tasks[1].out

\* The rate window of engine_name for the query of the search in progress,
\* as is_allowed prunes it at the clock reading now.
WindowNow(engine_name) ==
    LET key == rate_key(engine_name, request.query)
    IN Prune(IF key \in DOMAIN requests THEN requests[key] ELSE <<>>,
             now - window_seconds)

\* What the rate check of a registered engine does to the limiter: with room
\* in the pruned window the timestamp now is appended, else nothing is.
Recorded(engine_name) ==
    requests'[rate_key(engine_name, request.query)] =
        IF Len(WindowNow(engine_name)) < max_requests
        THEN Append(WindowNow(engine_name), now)
        ELSE WindowNow(engine_name)

C26_WitnessHit ==
    /\ pc = "finish"
    /\ from_cache
    /\ requests[rate_key(request.engines[pos - 1], request.query)] = <<now>>

\* C27 as stated: every name in engines_used of a response is one of the names
\* in the engines list of the request, under both strategies.
C27_Original == Done => Range(resp.engines_used) \subseteq Range(request.engines)

\* C28: a response has from_cache = True exactly when the serial strategy ran
\* and the first engine to win did so by a cache hit; its adapter was then not
\* called in that search and the results are the deduplicated cached list.  A
\* parallel response has from_cache = False, also when everything it returns
\* came from the cache.
C28_FromCacheIffSerialHit ==
    Done =>
        /\ resp.from_cache <=> /\ Serial
                               /\ Wins # {}
                               /\ trace[Min(Wins)].kind = "cache"
        /\ resp.from_cache =>
              LET hit == trace[Min(Wins)]
              IN /\ resp.results = _deduplicate_results(hit.value)
                 /\ resp.engines_used = <<request.engines[hit.idx]>>
                 /\ \A m \in DOMAIN trace :
                       trace[m].idx = hit.idx => trace[m].kind \in {"rate", "cache"}
        /\ Parallel => ~resp.from_cache

\* A serial search ended with a cache hit of its second engine, after the
\* adapter of the first one had returned nothing.
C28_Witness ==
    /\ Done
    /\ Serial
    /\ resp.from_cache
    /\ resp.success
    /\ \E m \in DOMAIN trace : trace[m].kind = "invoke" /\ ~trace[m].ok /\ trace[m].idx = 1
    /\ trace[Min(Wins)].idx = 2

\* A fan-out ended in which both engines were served from the cache.
C28_WitnessParallel ==
    /\ Done
    /\ Parallel
    /\ resp.success
    /\ ~resp.from_cache
    /\ \A k \in 1..2 : \E m \in Wins : trace[m].idx = k /\ trace[m].kind = "cache"

\* The lists a finished search adopted: the winner's in the serial strategy,
\* every contribution in the parallel one.
Adopted == {trace[m].value : m \in IF Serial /\ Wins # {} THEN {Min(Wins)} ELSE Wins}

\* The link once blanks, the query string and trailing slashes are removed.
Linkless(r) == rstrip(BeforeQuery(strip(r.link)), "/") = <<>>

\* C29: no result of a response has an empty link once the query string and
\* trailing slashes are stripped; such a result is dropped whatever its title
\* and wherever it stands, the first place included; and a search that adopted
\* only results of that kind returns success = False with no results.
C29_NoLinklessResults ==
    Done =>
        /\ \A n \in DOMAIN resp.results : ~Linkless(resp.results[n])
        /\ \A l \in Adopted : \A n \in DOMAIN l :
              Linkless(l[n]) => l[n] \notin Range(resp.results)
        /\ (Adopted # {} /\ \A l \in Adopted : \A n \in DOMAIN l : Linkless(l[n])) =>
              /\ ~resp.success
              /\ resp.results = <<>>
              /\ resp.count = 0

\* A serial search ended whose winner returned two results, one without a
\* link and one whose link is a slash and a query string: nothing is left.
C29_Witness ==
    /\ Done
    /\ Serial
    /\ Adopted = {<<B0, B2>>}
    /\ ~resp.success
    /\ resp.engines_used # <<>>

\* A fan-out ended in which the results without a link went and the others
\* stayed.
C29_WitnessParallel ==
    /\ Done
    /\ Parallel
    /\ <<B0, B2>> \in Adopted
    /\ resp.success

\* --------------------------------------------- eviction and expiry times
\* A SearchCache(max_size = CacheSize): entries are put at any clock reading,
\* the clock possibly advancing between the two datetime.now() of a set()
\* (lines 90 and 91).  ret keeps what the last set() evicted and what it left.
EvictingSet(query) ==
    \E d \in 0..1 :
        LET key == _generate_key(query, bing, cache_params(1, FALSE))
            full == Len(cache) >= CacheSize
        IN /\ now + d <= MaxTime
           /\ cache' = CacheAfterSetWithSize(cache, key, <<B1>>, now, now + d, CacheSize)
           /\ now' = now + d
           /\ ret' = [op |-> "set", at |-> now,
                      evicted |-> IF full THEN Some(cache[OldestIndex(cache)]) ELSE None,
                      others |-> IF full THEN Range(RemoveAt(cache, OldestIndex(cache)))
                                 ELSE {}]
           /\ UNCHANGED <<hits, misses, limiterVars, searchVars, processVars>>

EvictingSetAny == \E q \in CacheQueries : EvictingSet(q)

NextEvict == Tick \/ EvictingSetAny

SpecEvict == Init /\ [][NextEvict]_vars

\* C30 as stated: the entry a set() evicts has the earliest expires_at of the
\* entries stored, so that no unexpired entry is evicted while an expired one
\* stays in the cache.
C30_Original ==
    (ret.op = "set" /\ ret.evicted # None) =>
        \A other \in ret.others :
            /\ ret.evicted[1].expires_at <= other.expires_at
            /\ ~(ret.at < ret.evicted[1].expires_at /\ ret.at >= other.expires_at)

====
